---------------------------- MODULE Spec2Model ----------------------------
(* A model of the Twitch Helix client of src/src/lib/Twitch.js: the query   *)
(* builder _parseOptions, the transport wrapper _fetch and the public       *)
(* resource methods built on them.                                          *)
(*                                                                          *)
(* JavaScript strings are TLA+ strings, so a URL of the model is the very   *)
(* text the code builds.  The other JavaScript values are tagged records.   *)
EXTENDS Integers, Sequences, FiniteSets, TLC

VARIABLES
  client,   \* the fields of the Twitch object: client_id, bearer_token
  given,    \* the arguments the constructor was called with
  call,     \* the public-method call in progress or last ended
  wire,     \* the HTTP requests handed to fetch() by that call, in order
  pin,      \* the arguments of a direct _parseOptions invocation
  outs,     \* the strings successive invocations on those arguments returned
  jobs,     \* the public-method calls in flight at once, by caller slot
  mem       \* the objects a caller built for a call, before and after it

vars == <<client, given, call, wire, pin, outs, jobs, mem>>

-----------------------------------------------------------------------------
(* JavaScript values                                                        *)

Undefined == [t |-> "undefined"]
Null == [t |-> "null"]
Str(s) == [t |-> "string", s |-> s]
Num(n) == [t |-> "number", n |-> n]
Arr(a) == [t |-> "array", a |-> a]
Obj(e) == [t |-> "object", e |-> e]

IsArray(v) == v.t = "array"

(* ToBoolean: undefined, null, '' and 0 are falsy; every array and object   *)
(* is truthy, the empty array included.                                     *)
Truthy(v) ==
  CASE v.t = "undefined" -> FALSE
    [] v.t = "null" -> FALSE
    [] v.t = "string" -> v.s /= ""
    [] v.t = "number" -> v.n /= 0
    [] OTHER -> TRUE

(* Objects are ordered maps: the sequence of their <<key, value>> entries   *)
(* in the order Object.entries lists them in, which is the keys that are    *)
(* array indices in ascending numeric order, then the other keys in         *)
(* insertion order.                                                         *)
Digits == {ToString(n) : n \in 0..9}
DigitOf(c) == CHOOSE n \in 0..9 : ToString(n) = c
MaxIndex == "4294967294"

RECURSIVE AllDigits(_)
AllDigits(s) == s = "" \/ (SubSeq(s, 1, 1) \in Digits /\ AllDigits(Tail(s)))

(* Whether numeral s is less than numeral t of the same length.             *)
RECURSIVE NumeralBefore(_, _)
NumeralBefore(s, t) ==
  IF s = "" THEN FALSE
  ELSE LET c == DigitOf(SubSeq(s, 1, 1))
           d == DigitOf(SubSeq(t, 1, 1))
       IN IF c = d THEN NumeralBefore(Tail(s), Tail(t)) ELSE c < d

IndexBefore(s, t) == Len(s) < Len(t) \/ (Len(s) = Len(t) /\ NumeralBefore(s, t))

(* A key that is an array index: the canonical numeral of an integer from   *)
(* 0 to 2^32 - 2.                                                           *)
IsIndex(k) ==
  /\ k /= "" /\ AllDigits(k)
  /\ Len(k) = 1 \/ SubSeq(k, 1, 1) /= "0"
  /\ ~IndexBefore(MaxIndex, k)

HasKey(e, k) == \E i \in 1..Len(e) : e[i][1] = k

Get(e, k) ==
  IF HasKey(e, k) THEN e[CHOOSE i \in 1..Len(e) : e[i][1] = k][2]
  ELSE Undefined

(* What an evaluation that may throw comes to: the text it returned, or    *)
(* the exception it threw.                                                  *)
Returned(s) == [threw |-> FALSE, text |-> s]
Thrown(s) == [threw |-> TRUE, text |-> s]
TypeError == Thrown("TypeError: Cannot convert object to primitive value")

(* r + s on texts, the operands evaluated left to right.                    *)
Cat(r, s) == IF r.threw THEN r ELSE IF s.threw THEN s ELSE Returned(r.text \o s.text)

(* ToString, as string concatenation applies it: an array gives its        *)
(* join(','); any other object gives '[object Object]', unless it has an    *)
(* own toString property, which is no function here, and then the           *)
(* conversion throws.                                                       *)
RECURSIVE JoinText(_)
ScalarText(v) ==
  CASE v.t = "string" -> Returned(v.s)
    [] v.t = "number" -> Returned(ToString(v.n))
    [] v.t = "null" -> Returned("null")
    [] v.t = "undefined" -> Returned("undefined")
    [] v.t = "array" -> JoinText(v.a)
    [] OTHER -> IF HasKey(v.e, "toString") THEN TypeError
                ELSE Returned("[object Object]")

(* Array.prototype.join(','): null and undefined elements give '', every    *)
(* other element its ToString, an array element its own join.               *)
JoinText(a) ==
  IF a = <<>> THEN Returned("")
  ELSE LET h == IF Head(a).t \in {"undefined", "null"} THEN Returned("")
                ELSE ScalarText(Head(a))
       IN IF Len(a) = 1 THEN h ELSE Cat(Cat(h, Returned(",")), JoinText(Tail(a)))

ToText(v) == IF IsArray(v) THEN JoinText(v.a) ELSE ScalarText(v)

(* An assignment that lists a new key first.                                *)
Put_front(e, k, v) ==
  IF HasKey(e, k) THEN [i \in 1..Len(e) |-> IF e[i][1] = k THEN <<k, v>> ELSE e[i]]
  ELSE <<<<k, v>>>> \o e

(* obj[k] = v: an existing key keeps its place; a new key that is an array  *)
(* index goes among the index keys by its number, any other new key last.   *)
(* The key '__proto__', when not an own property, reaches the setter of     *)
(* Object.prototype, which adds no property.                                *)
Put(e, k, v) ==
  IF HasKey(e, k) THEN [i \in 1..Len(e) |-> IF e[i][1] = k THEN <<k, v>> ELSE e[i]]
  ELSE IF k = "__proto__" THEN e
  ELSE IF IsIndex(k)
  THEN LET n == Cardinality({i \in 1..Len(e) :
                              IsIndex(e[i][1]) /\ IndexBefore(e[i][1], k)})
       IN SubSeq(e, 1, n) \o << <<k, v>> >> \o SubSeq(e, n + 1, Len(e))
  ELSE Append(e, <<k, v>>)

-----------------------------------------------------------------------------
(* _parseOptions                                                            *)

API == "https://api.twitch.tv/helix/"

(* String.prototype.slice(0, -1): all but the last character.               *)
SliceLast(s) == SubSeq(s, 1, Len(s) - 1)

(* url += key + '=' + value + '&'                                          *)
AddPair(url, key, value) ==
  Cat(url, Cat(Returned(key \o "="), Cat(ToText(value), Returned("&"))))

(* value.forEach((p) => { url += key + '=' + p + '&' }); an exception ends  *)
(* the loop.                                                                *)
RECURSIVE EmitElements(_, _, _)
EmitElements(url, key, a) ==
  IF url.threw \/ a = <<>> THEN url
  ELSE EmitElements(AddPair(url, key, Head(a)), key, Tail(a))

(* A test that skips only the absent values: value !== undefined.           *)
Emits_defined(value) == value.t /= "undefined"

(* Whether the entry's value passes the test `if (value)`.                  *)
Emits(value) == Truthy(value)

(* A builder that appends a sequence value as one pair, coerced to text.    *)
EmitEntry_noExpand(url, param) ==
  IF ~url.threw /\ Emits(param[2]) THEN AddPair(url, param[1], param[2])
  ELSE url

(* The body of entries.forEach for one entry.                               *)
EmitEntry(url, param) ==
  LET key == param[1]
      value == param[2]
  IN IF ~url.threw /\ Emits(value)
     THEN IF IsArray(value)
          THEN EmitElements(url, key, value.a)
          ELSE AddPair(url, key, value)
     ELSE url

(* entries.forEach(...); an exception ends the loop.                        *)
RECURSIVE EmitEntries(_, _)
EmitEntries(url, entries) ==
  IF url.threw \/ entries = <<>> THEN url
  ELSE EmitEntries(EmitEntry(url, Head(entries)), Tail(entries))

(* return url.slice(0, -1), reached when nothing threw.                     *)
ReturnSliced(url) == IF url.threw THEN url ELSE Returned(SliceLast(url.text))

(* A builder that keeps the last character.                                 *)
_parseOptions_noSlice(method, options) ==
  EmitEntries(Returned(API \o method \o "?"), options)

_parseOptions(method, options) ==
  ReturnSliced(EmitEntries(Returned(API \o method \o "?"), options))

-----------------------------------------------------------------------------
(* _fetch and the public methods.  A method is modelled by the arguments it *)
(* hands to _fetch: the URL it built and the verb.                          *)

FetchArgs(url, method) ==
  [threw |-> url.threw, url |-> IF url.threw THEN "" ELSE url.text,
   method |-> method, error |-> IF url.threw THEN url.text ELSE ""]

(* A destructured parameter with a default: `name = dflt`.                  *)
Default(v, dflt) == IF v = Undefined THEN dflt ELSE v

(* A destructured options parameter with the default `= {}`.                *)
OptsOf(arg) == IF arg = Undefined THEN <<>> ELSE arg.e

DefaultLimit == 20

(* A transport request that names the token without the scheme.             *)
FetchRequest_bareToken(this, url, method) ==
  [url |-> url, method |-> method,
   headers |-> << <<"client-id", this.client_id>>,
                  <<"Authorization", this.bearer_token>> >>]

(* The request _fetch hands to fetch(): fetch(url, { method, headers }).    *)
FetchRequest(this, url, method) ==
  [url |-> url, method |-> method,
   headers |-> << <<"client-id", this.client_id>>,
                  <<"Authorization", "Bearer " \o this.bearer_token>> >>]

getGameById(id) ==
  FetchArgs(_parseOptions("games", << <<"id", id>> >>), Str("GET"))

getGameByName(name) ==
  FetchArgs(_parseOptions("games", << <<"name", name>> >>), Str("GET"))

getTopGames(arg) ==
  LET o == OptsOf(arg)
      options == << <<"first", Default(Get(o, "limit"), Num(DefaultLimit))>>,
                    <<"after", Get(o, "forwardPagination")>>,
                    <<"before", Get(o, "backwardPagination")>> >>
  IN FetchArgs(_parseOptions("games/top", options), Str("GET"))

_getClips(method, query, options) ==
  FetchArgs(_parseOptions("clips", Put(options, method, query)), Str("GET"))

(* The object literal the three clips methods build from their options.     *)
ClipFields(arg) ==
  LET o == OptsOf(arg)
  IN << <<"first", Default(Get(o, "limit"), Num(DefaultLimit))>>,
        <<"after", Get(o, "forwardPagination")>>,
        <<"before", Get(o, "backwardPagination")>>,
        <<"started_at", Get(o, "startedAt")>>,
        <<"ended_at", Get(o, "endedAt")>> >>

getClipsByBroadcaster(id, arg) == _getClips("broadcaster_id", id, ClipFields(arg))
getClipsByGameId(id, arg) == _getClips("game_id", id, ClipFields(arg))
getClipsByClipId(id, arg) == _getClips("id", id, ClipFields(arg))

(* array.forEach((x) => { array.push(x) }): forEach visits the elements the *)
(* array had when it began, so the array ends up doubled.                   *)
PushEachOntoItself(a) == a \o a

_getStreams(method, query, options) ==
  LET opts0 == << <<"language", Get(options, "language")>>,
                  <<"first", Get(options, "limit")>>,
                  <<"after", Get(options, "forwardPagination")>>,
                  <<"before", Get(options, "backwardPagination")>> >>
      \* an array query is copied element by element into a new array
      opts1 == IF Truthy(method) /\ Truthy(query)
               THEN Put(opts0, method.s, query)
               ELSE opts0
      language == Get(opts1, "language")
      opts == IF IsArray(language)
              THEN Put(opts1, "language", Arr(PushEachOntoItself(language.a)))
              ELSE opts1
  IN FetchArgs(_parseOptions("streams", opts), Undefined)

(* A literal that hands the caller's own language value on, array or not.  *)
StreamFields_shared(arg) ==
  LET o == OptsOf(arg)
  IN << <<"language", Get(o, "language")>>,
        <<"first", Default(Get(o, "limit"), Num(DefaultLimit))>>,
        <<"after", Get(o, "forwardPagination")>>,
        <<"before", Get(o, "backwardPagination")>> >>

(* The object literal the four streams methods build from their options.    *)
StreamFields(arg) ==
  LET o == OptsOf(arg)
      language == Get(o, "language")
  IN << <<"language", IF IsArray(language) THEN Arr(<<>>) ELSE language>>,
        <<"first", Default(Get(o, "limit"), Num(DefaultLimit))>>,
        <<"after", Get(o, "forwardPagination")>>,
        <<"before", Get(o, "backwardPagination")>> >>

getStreamsByBroadcasterID(query, arg) == _getStreams(Str("user_id"), query, StreamFields(arg))
getStreamsByGameId(id, arg) == _getStreams(Str("game_id"), id, StreamFields(arg))
getStreamsByUsername(name, arg) == _getStreams(Str("user_login"), name, StreamFields(arg))
getStreams(arg) == _getStreams(Null, Null, StreamFields(arg))

_getUsers(method, query) ==
  LET \* an array query is copied element by element into a new array
      opts == IF Truthy(method) /\ Truthy(query)
              THEN Put(<<>>, method.s, query)
              ELSE <<>>
  IN FetchArgs(_parseOptions("users", opts), Str("GET"))

getUsersById(id) == _getUsers(Str("id"), id)
getUsersByUsername(name) == _getUsers(Str("login"), name)

getUsersFollowers(id, arg) ==
  LET o == OptsOf(arg)
      options == << <<"to_id", id>>,
                    <<"first", Default(Get(o, "limit"), Num(DefaultLimit))>>,
                    <<"after", Get(o, "forwardPagination")>> >>
  IN FetchArgs(_parseOptions("users/follows", options), Str("GET"))

getUsersFollowing(id, arg) ==
  LET o == OptsOf(arg)
      options == << <<"from_id", id>>,
                    <<"first", Default(Get(o, "limit"), Num(DefaultLimit))>>,
                    <<"after", Get(o, "forwardPagination")>> >>
  IN FetchArgs(_parseOptions("users/follows", options), Str("GET"))

getStreamTags(id) ==
  FetchArgs(_parseOptions("streams/tags", << <<"broadcaster_id", id>> >>), Str("GET"))

_getVideos(method, query, options) ==
  FetchArgs(_parseOptions("videos", Put(options, method, query)), Str("GET"))

getVideosByBroadcasterId(id, arg) ==
  LET o == OptsOf(arg)
  IN _getVideos("user_id", id,
       << <<"first", Default(Get(o, "limit"), Num(DefaultLimit))>>,
          <<"after", Get(o, "forwardPagination")>>,
          <<"before", Get(o, "backwardPagination")>>,
          <<"language", Get(o, "language")>>,
          <<"period", Default(Get(o, "period"), Str("all"))>>,
          <<"sort", Default(Get(o, "sort"), Str("time"))>>,
          <<"type", Default(Get(o, "type"), Str("all"))>> >>)

(* The public methods, each applied to its first argument and its options.  *)
PublicCall(m, id, arg) ==
  CASE m = "getGameById" -> getGameById(id)
    [] m = "getGameByName" -> getGameByName(id)
    [] m = "getTopGames" -> getTopGames(arg)
    [] m = "getClipsByBroadcaster" -> getClipsByBroadcaster(id, arg)
    [] m = "getClipsByGameId" -> getClipsByGameId(id, arg)
    [] m = "getClipsByClipId" -> getClipsByClipId(id, arg)
    [] m = "getStreamsByBroadcasterID" -> getStreamsByBroadcasterID(id, arg)
    [] m = "getStreamsByGameId" -> getStreamsByGameId(id, arg)
    [] m = "getStreamsByUsername" -> getStreamsByUsername(id, arg)
    [] m = "getStreams" -> getStreams(arg)
    [] m = "getUsersById" -> getUsersById(id)
    [] m = "getUsersByUsername" -> getUsersByUsername(id)
    [] m = "getUsersFollowers" -> getUsersFollowers(id, arg)
    [] m = "getUsersFollowing" -> getUsersFollowing(id, arg)
    [] m = "getStreamTags" -> getStreamTags(id)
    [] m = "getVideosByBroadcasterId" -> getVideosByBroadcasterId(id, arg)

-----------------------------------------------------------------------------
(* Direct invocations of _parseOptions                                      *)

MaxSeqLen == 2
MaxRepeat == 2
MaxFlight == 2

Seqs(S, n) == UNION {[1..k -> S] : k \in 0..n}

Paths == {"games", "clips"}
Keys == {"broadcaster_id", "first", "language"}
Scalars == {Undefined, Null, Str(""), Num(0), Str("44322889"), Num(20)}
Elements == {Str("en"), Str("es"), Num(0)}
Values == Scalars \cup {Arr(a) : a \in Seqs(Elements, MaxSeqLen)}

(* Every map of at most two of the keys, in every insertion order.          *)
KeyOrders ==
  {<<>>} \cup {<<k>> : k \in Keys}
         \cup {ks \in Keys \X Keys : ks[1] /= ks[2]}
OptionMaps ==
  UNION {{[i \in 1..Len(ks) |-> <<ks[i], vs[i]>>] : vs \in [1..Len(ks) -> Values]}
         : ks \in KeyOrders}

NoPin == [path |-> "", options |-> <<>>, set |-> FALSE]
Credentials ==
  {[client_id |-> "abc123", bearer_token |-> "tok1"],
   [client_id |-> "xyz789", bearer_token |-> "tok2"]}
Idle == [state |-> "idle"]
Free == [state |-> "free"]
NoJobs == [j \in 1..MaxFlight |-> Free]
NoMem == [phase |-> "none"]

(* this._parseOptions(path, options), called again on the same arguments.   *)
ParseOptions ==
  /\ pin.set
  /\ Len(outs) < MaxRepeat
  /\ outs' = Append(outs, _parseOptions(pin.path, pin.options))
  /\ UNCHANGED <<jobs, mem, client, given, call, wire, pin>>

ParseInit ==
  /\ given = CHOOSE c \in Credentials : c.client_id = "abc123"
  /\ client = given
  /\ call = Idle
  /\ wire = <<>>
  /\ \E p \in Paths, o \in OptionMaps : pin = [path |-> p, options |-> o, set |-> TRUE]
  /\ outs = <<>>
  /\ jobs = NoJobs
  /\ mem = NoMem

(* One invocation on each pair of arguments.                                *)
ParseNext == outs = <<>> /\ ParseOptions

ParseSpec == ParseInit /\ [][ParseNext]_vars

-----------------------------------------------------------------------------
(* The client as a state machine: a caller invokes one public method and    *)
(* awaits its promise; the transport answers the fetch and then the read of *)
(* the body.                                                                *)

StringIds == {Str("44322889"), Str("")}
(* Arrays of distinct ids: 141981765, 141981766, ...                        *)
IdList(k) == [i \in 1..k |-> Str(ToString(141981764 + i))]
ArrayIds == {Arr(IdList(k)) : k \in 0..MaxSeqLen}
Ids == StringIds \cup ArrayIds \cup {Undefined}

Limits == {Undefined, Num(0), Num(20), Num(100)}
Forward == {Undefined, Str("c1")}
Backward == {Undefined, Str("c2")}
Dates == {Undefined, Str("2020-01-01T00:00:00Z")}
LanguageLists == {Arr(a) : a \in Seqs({Str("en"), Str("es")}, MaxSeqLen)}

(* The options objects a caller passes.  A key left out and a key given as  *)
(* undefined are the same to the destructuring parameter, so every object   *)
(* lists all the keys of its typedef.                                       *)
GameOptions ==
  {Obj(<< <<"limit", l>>, <<"forwardPagination", f>>, <<"backwardPagination", b>> >>) :
     l \in Limits, f \in Forward, b \in Backward}
ClipOptions ==
  {Obj(<< <<"limit", l>>, <<"forwardPagination", fb[1]>>, <<"backwardPagination", fb[2]>>,
          <<"startedAt", d>>, <<"endedAt", d>> >>) :
     l \in Limits, fb \in Forward \X Backward, d \in Dates}
(* Every limit and cursor with one language or none, and every list of     *)
(* languages with the other options left out.                               *)
StreamOptions ==
  {Obj(<< <<"limit", l>>, <<"forwardPagination", fb[1]>>, <<"backwardPagination", fb[2]>>,
          <<"language", g>> >>) :
     l \in Limits, fb \in Forward \X Backward, g \in {Undefined, Str("en")}}
  \cup
  {Obj(<< <<"limit", Undefined>>, <<"forwardPagination", Undefined>>,
          <<"backwardPagination", Undefined>>, <<"language", g>> >>) :
     g \in LanguageLists}
FollowerOptions ==
  {Obj(<< <<"limit", l>>, <<"forwardPagination", f>> >>) : l \in Limits, f \in Forward}
VideoOptions ==
  {Obj(<< <<"limit", l>>, <<"forwardPagination", fb[1]>>, <<"backwardPagination", fb[2]>>,
          <<"language", g>>, <<"period", ps[1]>>, <<"sort", ps[2]>>, <<"type", ps[1]>> >>) :
     l \in Limits, fb \in Forward \X Backward, g \in {Undefined, Str("en")},
     ps \in {<<Undefined, Undefined>>, <<Str("week"), Undefined>>, <<Undefined, Str("views")>>}}

IdOnlyMethods ==
  {"getGameById", "getGameByName", "getStreamTags", "getUsersById", "getUsersByUsername"}
ClipMethods == {"getClipsByBroadcaster", "getClipsByGameId", "getClipsByClipId"}
StreamIdMethods == {"getStreamsByBroadcasterID", "getStreamsByGameId", "getStreamsByUsername"}
StreamMethods == StreamIdMethods \cup {"getStreams"}
FollowMethods == {"getUsersFollowers", "getUsersFollowing"}
VideoMethods == {"getVideosByBroadcasterId"}
ArrayIdMethods == {"getClipsByClipId", "getUsersById", "getUsersByUsername"} \cup StreamIdMethods
Methods ==
  IdOnlyMethods \cup ClipMethods \cup StreamMethods \cup FollowMethods \cup VideoMethods
    \cup {"getTopGames"}

(* The first arguments and the options arguments a caller gives a method;   *)
(* Undefined is an argument left out.                                       *)
IdsOf(m) ==
  IF m \in {"getTopGames", "getStreams"} THEN {Undefined}
  ELSE IF m \in ArrayIdMethods THEN Ids
  ELSE StringIds \cup {Undefined}
OptionsOf(m) ==
  {Undefined} \cup
    (CASE m \in ClipMethods -> ClipOptions
       [] m \in StreamMethods -> StreamOptions
       [] m \in FollowMethods -> FollowerOptions
       [] m \in VideoMethods -> VideoOptions
       [] m = "getTopGames" -> GameOptions
       [] OTHER -> {})

NetworkErrors == {"FetchError: request failed"}
BodyErrors == {"FetchError: invalid json response body", "FetchError: premature close"}
Bodies == {"{data: []}", "{data: [1]}"}

(* The continuation of _fetch after `await fetch(...)` settled: a response  *)
(* goes on to res.json(), a failure goes to the catch block.                *)
AfterFetch(c, ok, err) ==
  IF ok THEN [c EXCEPT !.stage = "json"]
  ELSE [c EXCEPT !.state = "rejected", !.error = "Error: " \o err]

(* A continuation that answers a failed read of the body with a fallback.   *)
AfterJson_fallback(c, ok, body, err) ==
  [c EXCEPT !.state = "fulfilled", !.value = IF ok THEN body ELSE "undefined"]

(* The continuation of _fetch after `await res.json()` settled: the body is *)
(* returned, a failure goes to the catch block.                             *)
AfterJson(c, ok, body, err) ==
  IF ok THEN [c EXCEPT !.state = "fulfilled", !.value = body]
  ELSE [c EXCEPT !.state = "rejected", !.error = "Error: " \o err]

(* A caller invokes public method m: the method builds its URL and _fetch   *)
(* hands the request to fetch() before its first await.  An exception in    *)
(* building the URL leaves the method before _fetch is called.              *)
Invoke(m, id, arg) ==
  /\ call = Idle
  /\ LET f == PublicCall(m, id, arg)
     IN IF f.threw
        THEN /\ wire' = <<>>
             /\ call' = [state |-> "threw", stage |-> "build", m |-> m, id |-> id,
                         arg |-> arg, net |-> "unsent", read |-> "unsent",
                         cause |-> "", body |-> "", value |-> "", error |-> f.error]
        ELSE /\ wire' = <<FetchRequest(client, f.url, f.method)>>
             /\ call' = [state |-> "pending", stage |-> "fetch", m |-> m, id |-> id,
                         arg |-> arg, net |-> "waiting", read |-> "waiting",
                         cause |-> "", body |-> "", value |-> "", error |-> ""]
  /\ UNCHANGED <<jobs, mem, client, given, pin, outs>>

(* The transport fails the request: the promise of fetch() is rejected.     *)
FetchRejects(err) ==
  /\ call.state = "pending" /\ call.stage = "fetch" /\ call.net = "waiting"
  /\ call' = [call EXCEPT !.net = "failed", !.cause = err]
  /\ UNCHANGED <<jobs, mem, client, given, wire, pin, outs>>

(* The transport delivers a response: the promise of fetch() is resolved.   *)
FetchResolves ==
  /\ call.state = "pending" /\ call.stage = "fetch" /\ call.net = "waiting"
  /\ call' = [call EXCEPT !.net = "responded"]
  /\ UNCHANGED <<jobs, mem, client, given, wire, pin, outs>>

(* _fetch resumes after `await fetch(...)`, in a later microtask.           *)
ResumeAfterFetch ==
  /\ call.state = "pending" /\ call.stage = "fetch" /\ call.net /= "waiting"
  /\ call' = AfterFetch(call, call.net = "responded", call.cause)
  /\ UNCHANGED <<jobs, mem, client, given, wire, pin, outs>>

(* The body arrives and parses as JSON: the promise of res.json() is        *)
(* resolved.                                                                *)
JsonResolves(body) ==
  /\ call.state = "pending" /\ call.stage = "json" /\ call.read = "waiting"
  /\ call' = [call EXCEPT !.read = "parsed", !.body = body]
  /\ UNCHANGED <<jobs, mem, client, given, wire, pin, outs>>

(* The body fails to arrive or to parse: the promise of res.json() is       *)
(* rejected.                                                                *)
JsonRejects(err) ==
  /\ call.state = "pending" /\ call.stage = "json" /\ call.read = "waiting"
  /\ call' = [call EXCEPT !.read = "failed", !.cause = err]
  /\ UNCHANGED <<jobs, mem, client, given, wire, pin, outs>>

(* _fetch resumes after `await res.json()`, in a later microtask.           *)
ResumeAfterJson ==
  /\ call.state = "pending" /\ call.stage = "json" /\ call.read /= "waiting"
  /\ call' = AfterJson(call, call.read = "parsed", call.body, call.cause)
  /\ UNCHANGED <<jobs, mem, client, given, wire, pin, outs>>

(* The caller has the body, the rejection or the exception, and the         *)
(* exchange is over.                                                        *)
Settled ==
  /\ call /= Idle
  /\ call.state \in {"fulfilled", "rejected", "threw"}
  /\ call' = Idle
  /\ wire' = <<>>
  /\ UNCHANGED <<jobs, mem, client, given, pin, outs>>

Transport ==
  \/ \E err \in NetworkErrors : FetchRejects(err)
  \/ FetchResolves
  \/ \E body \in Bodies : JsonResolves(body)
  \/ \E err \in BodyErrors : JsonRejects(err)

Continuation == ResumeAfterFetch \/ ResumeAfterJson

(* new Twitch({ client_id, bearer_token })                                  *)
Init ==
  /\ given \in Credentials
  /\ client = [client_id |-> given.client_id, bearer_token |-> given.bearer_token]
  /\ call = Idle
  /\ wire = <<>>
  /\ pin = NoPin
  /\ outs = <<>>
  /\ jobs = NoJobs
  /\ mem = NoMem

InvokeAny == \E m \in Methods : \E id \in IdsOf(m), arg \in OptionsOf(m) : Invoke(m, id, arg)

Next == InvokeAny \/ Transport \/ Continuation \/ Settled

Spec == Init /\ [][Next]_vars

(* The microtask queue is always drained: a continuation that can run does. *)
LiveSpec == Spec /\ WF_vars(Continuation)

(* A few calls of the public methods.                                       *)
SampleCalls ==
  {<<"getGameById", Str("44322889"), Undefined>>,
   <<"getClipsByClipId", Arr(IdList(MaxSeqLen)), Undefined>>,
   <<"getStreamsByUsername", Str("44322889"),
     Obj(<< <<"limit", Num(100)>>, <<"forwardPagination", Str("c1")>>,
            <<"backwardPagination", Undefined>>, <<"language", Str("en")>> >>)>>,
   <<"getGameById", Obj(<< <<"toString", Str("x")>> >>), Undefined>>}


-----------------------------------------------------------------------------
(* Several public calls in flight on one client.  Each call of the async    *)
(* _fetch has its own activation: url, method, res and body are its locals, *)
(* and it suspends only at `await fetch(...)` and `await res.json()`.  The  *)
(* transport settles the promise a call awaits; the call's continuation     *)
(* runs later, in any order relative to the other calls' steps.             *)

NoRequest == [url |-> "", method |-> Undefined, headers |-> <<>>]
NoMail == [ok |-> FALSE, body |-> "", err |-> "", full |-> FALSE]
Mail(ok, body, err) == [ok |-> ok, body |-> body, err |-> err, full |-> TRUE]

(* What the transport may answer to a call suspended at the given await.    *)
Settlements(stage) ==
  IF stage = "fetch"
    THEN {Mail(TRUE, "", "")} \cup {Mail(FALSE, "", err) : err \in NetworkErrors}
    ELSE {Mail(TRUE, body, "") : body \in Bodies}
           \cup {Mail(FALSE, "", err) : err \in BodyErrors}

(* A client that keeps one slot for the settlement last received, shared by *)
(* every call in flight.                                                    *)
Awaited_shared(js, j) ==
  LET full == {k \in DOMAIN js : js[k] /= Free /\ js[k].mail.full}
  IN js[CHOOSE k \in full : \A l \in full : k <= l].mail

(* The settlement a call's continuation receives: that of the promise its   *)
(* own activation awaited (`const res = await fetch(...)`,                  *)
(* `const body = await res.json()`).                                        *)
Awaited(js, j) == js[j].mail

(* The continuation of call j: the code of _fetch after the await it was    *)
(* suspended at.                                                            *)
Continue(js, j) ==
  LET s == Awaited(js, j)
      c == [js[j] EXCEPT !.mail = NoMail]
  IN IF c.stage = "fetch" THEN AfterFetch(c, s.ok, s.err)
     ELSE AfterJson(c, s.ok, s.body, s.err)

(* A caller invokes public method m in a free slot: the method builds its   *)
(* URL and _fetch hands the request to fetch() before its first await.  An  *)
(* exception in building the URL leaves the method before _fetch is called. *)
Start(j, m, id, arg) ==
  /\ jobs[j] = Free
  /\ LET f == PublicCall(m, id, arg)
     IN jobs' = [jobs EXCEPT ![j] =
                   IF f.threw
                   THEN [state |-> "threw", stage |-> "build", m |-> m, id |-> id,
                         arg |-> arg, req |-> NoRequest, mail |-> NoMail,
                         served |-> <<>>, value |-> "", error |-> f.error]
                   ELSE [state |-> "pending", stage |-> "fetch", m |-> m, id |-> id,
                         arg |-> arg, req |-> FetchRequest(client, f.url, f.method),
                         mail |-> NoMail, served |-> <<>>, value |-> "",
                         error |-> ""]]
  /\ UNCHANGED <<mem, client, given, call, wire, pin, outs>>

(* The transport settles the promise call j is suspended at.                *)
Respond(j, s) ==
  /\ jobs[j] /= Free
  /\ jobs[j].state = "pending" /\ ~jobs[j].mail.full
  /\ s \in Settlements(jobs[j].stage)
  /\ jobs' = [jobs EXCEPT ![j].mail = s, ![j].served = Append(@, s)]
  /\ UNCHANGED <<mem, client, given, call, wire, pin, outs>>

(* The continuation of call j runs.                                         *)
Resume(j) ==
  /\ jobs[j] /= Free
  /\ jobs[j].state = "pending" /\ jobs[j].mail.full
  /\ jobs' = [jobs EXCEPT ![j] = Continue(jobs, j)]
  /\ UNCHANGED <<mem, client, given, call, wire, pin, outs>>

(* The caller of call j has its body, its rejection or its exception; the   *)
(* slot is free again.                                                      *)
Return(j) ==
  /\ jobs[j] /= Free
  /\ jobs[j].state \in {"fulfilled", "rejected", "threw"}
  /\ jobs' = [jobs EXCEPT ![j] = Free]
  /\ UNCHANGED <<mem, client, given, call, wire, pin, outs>>

StartAny == \E j \in 1..MaxFlight : \E c \in SampleCalls : Start(j, c[1], c[2], c[3])
RespondAny ==
  \E j \in 1..MaxFlight : \E s \in Settlements("fetch") \cup Settlements("json") :
    Respond(j, s)
ResumeAny == \E j \in 1..MaxFlight : Resume(j)
ReturnAny == \E j \in 1..MaxFlight : Return(j)

FlightNext == StartAny \/ RespondAny \/ ResumeAny \/ ReturnAny

FlightSpec == Init /\ [][FlightNext]_vars

-----------------------------------------------------------------------------
(* Objects by identity.  Arrays and objects live in cells, one per object:  *)
(* a cell holds an array's elements or an object's entries, and a value     *)
(* that is an array or an object names its cell.  The caller's objects are  *)
(* the array it passes as id, name or query ("id"), its options object      *)
(* ("options") and the arrays that object holds ("options.<key>"); the      *)
(* others are created by the library during the call.                       *)

ArrAt(at) == [t |-> "array", at |-> at]
ObjAt(at) == [t |-> "object", at |-> at]
Named(v) == "at" \in DOMAIN v

NoCells == [a \in {} |-> <<>>]

(* A new array or object: `[]`, `{ ... }`.                                  *)
New(h, at, content) ==
  [a \in DOMAIN h \cup {at} |-> IF a = at THEN content ELSE h[a]]

(* array.push(v)                                                            *)
Push(h, array, v) == [h EXCEPT ![array.at] = Append(@, v)]

(* obj[k] = v                                                               *)
Assign(h, obj, k, v) == [h EXCEPT ![obj.at] = Put(@, k, v)]

(* source.forEach((x) => { target.push(x) }): forEach visits the indices    *)
(* the source had when it began.                                            *)
RECURSIVE ForEachPushFrom(_, _, _, _, _)
ForEachPushFrom(h, source, target, i, n) ==
  IF i > n THEN h
  ELSE ForEachPushFrom(Push(h, target, h[source.at][i]), source, target, i + 1, n)
ForEachPush(h, source, target) ==
  ForEachPushFrom(h, source, target, 1, Len(h[source.at]))

(* The value _parseOptions reads through a name, and an object's entries.   *)
ValueAt(h, v) == IF Named(v) THEN Arr(h[v.at]) ELSE v
EntriesAt(h, obj) ==
  [i \in 1..Len(h[obj.at]) |-> <<h[obj.at][i][1], ValueAt(h, h[obj.at][i][2])>>]

(* A builder that takes the elements out of the arrays it emits             *)
(* (value.shift() in place of value.forEach).                               *)
Parsed_draining(h, path, options) ==
  LET r == _parseOptions(path, EntriesAt(h, options))
      emitted == {h[options.at][i][2].at :
                    i \in {i \in 1..Len(h[options.at]) : Named(h[options.at][i][2])}}
  IN [cells |-> [a \in DOMAIN h |-> IF a \in emitted THEN <<>> ELSE h[a]],
      threw |-> r.threw, url |-> IF r.threw THEN "" ELSE r.text,
      error |-> IF r.threw THEN r.text ELSE ""]

(* What a call leaves: the cells, and the URL it handed to _fetch or the    *)
(* exception that building the URL threw.                                   *)
Parsed(h, path, options) ==
  LET r == _parseOptions(path, EntriesAt(h, options))
  IN [cells |-> h, threw |-> r.threw, url |-> IF r.threw THEN "" ELSE r.text,
      error |-> IF r.threw THEN r.text ELSE ""]

(* The caller's objects for a first argument and an options argument.       *)
Passed(v, at) == IF IsArray(v) THEN ArrAt(at) ELSE v
OwnAddrs(id, arg) ==
  (IF IsArray(id) THEN {"id"} ELSE {})
  \cup (IF arg = Undefined THEN {}
        ELSE {"options"} \cup {"options." \o arg.e[i][1] :
                                 i \in {i \in 1..Len(arg.e) : IsArray(arg.e[i][2])}})
CallerCells(id, arg) ==
  [a \in OwnAddrs(id, arg) |->
     IF a = "id" THEN id.a
     ELSE IF a = "options"
     THEN [i \in 1..Len(arg.e) |->
             <<arg.e[i][1], Passed(arg.e[i][2], "options." \o arg.e[i][1])>>]
     ELSE Get(arg.e, SubSeq(a, Len("options.") + 1, Len(a))).a]

(* The options argument as a destructuring parameter reads it.              *)
Seen(h, arg) == IF arg = Undefined THEN Undefined ELSE Obj(h[arg.at])

(* const options = { ... }, or the object literal in an argument position.  *)
Literal(h, fields) == New(h, "literal", fields)

getGameById_cells(h, id) ==
  Parsed(Literal(h, << <<"id", id>> >>), "games", ObjAt("literal"))

getGameByName_cells(h, name) ==
  Parsed(Literal(h, << <<"name", name>> >>), "games", ObjAt("literal"))

getTopGames_cells(h, arg) ==
  LET o == OptsOf(Seen(h, arg))
      options == << <<"first", Default(Get(o, "limit"), Num(DefaultLimit))>>,
                    <<"after", Get(o, "forwardPagination")>>,
                    <<"before", Get(o, "backwardPagination")>> >>
  IN Parsed(Literal(h, options), "games/top", ObjAt("literal"))

_getClips_cells(h, method, query, options) ==
  Parsed(Assign(h, options, method, query), "clips", options)

getClipsByBroadcaster_cells(h, id, arg) ==
  _getClips_cells(Literal(h, ClipFields(Seen(h, arg))), "broadcaster_id", id, ObjAt("literal"))
getClipsByGameId_cells(h, id, arg) ==
  _getClips_cells(Literal(h, ClipFields(Seen(h, arg))), "game_id", id, ObjAt("literal"))
getClipsByClipId_cells(h, id, arg) ==
  _getClips_cells(Literal(h, ClipFields(Seen(h, arg))), "id", id, ObjAt("literal"))

_getStreams_cells(h, method, query, options) ==
  LET o == h[options.at]
      opts == ObjAt("opts")
      h1 == New(h, "opts", << <<"language", Get(o, "language")>>,
                              <<"first", Get(o, "limit")>>,
                              <<"after", Get(o, "forwardPagination")>>,
                              <<"before", Get(o, "backwardPagination")>> >>)
      h2 == IF Truthy(method) /\ Truthy(query)
            THEN IF IsArray(query)
                 THEN ForEachPush(
                        Assign(New(h1, "opts.query", <<>>), opts, method.s,
                               ArrAt("opts.query")),
                        query, ArrAt("opts.query"))
                 ELSE Assign(h1, opts, method.s, query)
            ELSE h1
      language == Get(h2[opts.at], "language")
      h3 == IF IsArray(language) THEN ForEachPush(h2, language, language) ELSE h2
  IN Parsed(h3, "streams", opts)

(* The streams methods' object literal: an array literal among its fields   *)
(* is a new array.                                                          *)
StreamLiteral(h, arg) ==
  LET fields == StreamFields(Seen(h, arg))
      language == Get(fields, "language")
  IN IF IsArray(language) /\ ~Named(language)
     THEN Literal(New(h, "literal.language", language.a),
                  Put(fields, "language", ArrAt("literal.language")))
     ELSE Literal(h, fields)

getStreamsByBroadcasterID_cells(h, query, arg) ==
  _getStreams_cells(StreamLiteral(h, arg), Str("user_id"), query, ObjAt("literal"))
getStreamsByGameId_cells(h, id, arg) ==
  _getStreams_cells(StreamLiteral(h, arg), Str("game_id"), id, ObjAt("literal"))
getStreamsByUsername_cells(h, name, arg) ==
  _getStreams_cells(StreamLiteral(h, arg), Str("user_login"), name, ObjAt("literal"))
getStreams_cells(h, arg) ==
  _getStreams_cells(StreamLiteral(h, arg), Null, Null, ObjAt("literal"))

_getUsers_cells(h, method, query) ==
  LET opts == ObjAt("opts")
      h1 == New(h, "opts", <<>>)
      h2 == IF Truthy(method) /\ Truthy(query)
            THEN IF IsArray(query)
                 THEN ForEachPush(
                        Assign(New(h1, "opts.query", <<>>), opts, method.s,
                               ArrAt("opts.query")),
                        query, ArrAt("opts.query"))
                 ELSE Assign(h1, opts, method.s, query)
            ELSE h1
  IN Parsed(h2, "users", opts)

getUsersById_cells(h, id) == _getUsers_cells(h, Str("id"), id)
getUsersByUsername_cells(h, name) == _getUsers_cells(h, Str("login"), name)

getUsersFollowers_cells(h, id, arg) ==
  LET o == OptsOf(Seen(h, arg))
      options == << <<"to_id", id>>,
                    <<"first", Default(Get(o, "limit"), Num(DefaultLimit))>>,
                    <<"after", Get(o, "forwardPagination")>> >>
  IN Parsed(Literal(h, options), "users/follows", ObjAt("literal"))

getUsersFollowing_cells(h, id, arg) ==
  LET o == OptsOf(Seen(h, arg))
      options == << <<"from_id", id>>,
                    <<"first", Default(Get(o, "limit"), Num(DefaultLimit))>>,
                    <<"after", Get(o, "forwardPagination")>> >>
  IN Parsed(Literal(h, options), "users/follows", ObjAt("literal"))

getStreamTags_cells(h, id) ==
  Parsed(Literal(h, << <<"broadcaster_id", id>> >>), "streams/tags", ObjAt("literal"))

_getVideos_cells(h, method, query, options) ==
  Parsed(Assign(h, options, method, query), "videos", options)

getVideosByBroadcasterId_cells(h, id, arg) ==
  LET o == OptsOf(Seen(h, arg))
  IN _getVideos_cells(
       Literal(h, << <<"first", Default(Get(o, "limit"), Num(DefaultLimit))>>,
                     <<"after", Get(o, "forwardPagination")>>,
                     <<"before", Get(o, "backwardPagination")>>,
                     <<"language", Get(o, "language")>>,
                     <<"period", Default(Get(o, "period"), Str("all"))>>,
                     <<"sort", Default(Get(o, "sort"), Str("time"))>>,
                     <<"type", Default(Get(o, "type"), Str("all"))>> >>),
       "user_id", id, ObjAt("literal"))

PublicCall_cells(m, h, id, arg) ==
  CASE m = "getGameById" -> getGameById_cells(h, id)
    [] m = "getGameByName" -> getGameByName_cells(h, id)
    [] m = "getTopGames" -> getTopGames_cells(h, arg)
    [] m = "getClipsByBroadcaster" -> getClipsByBroadcaster_cells(h, id, arg)
    [] m = "getClipsByGameId" -> getClipsByGameId_cells(h, id, arg)
    [] m = "getClipsByClipId" -> getClipsByClipId_cells(h, id, arg)
    [] m = "getStreamsByBroadcasterID" -> getStreamsByBroadcasterID_cells(h, id, arg)
    [] m = "getStreamsByGameId" -> getStreamsByGameId_cells(h, id, arg)
    [] m = "getStreamsByUsername" -> getStreamsByUsername_cells(h, id, arg)
    [] m = "getStreams" -> getStreams_cells(h, arg)
    [] m = "getUsersById" -> getUsersById_cells(h, id)
    [] m = "getUsersByUsername" -> getUsersByUsername_cells(h, id)
    [] m = "getUsersFollowers" -> getUsersFollowers_cells(h, id, arg)
    [] m = "getUsersFollowing" -> getUsersFollowing_cells(h, id, arg)
    [] m = "getStreamTags" -> getStreamTags_cells(h, id)
    [] m = "getVideosByBroadcasterId" -> getVideosByBroadcasterId_cells(h, id, arg)

(* What a caller may pass: a sequence in any id, name or query position, an *)
(* object there, one whose conversion to text throws included, and a        *)
(* sequence of languages to the methods that take a language.               *)
VideoListOptions ==
  {Obj(<< <<"limit", Undefined>>, <<"forwardPagination", Undefined>>,
          <<"backwardPagination", Undefined>>, <<"language", g>>,
          <<"period", Undefined>>, <<"sort", Undefined>>, <<"type", Undefined>> >>) :
     g \in LanguageLists}
OddIds ==
  {Obj(<<>>), Obj(<< <<"toString", Str("x")>> >>),
   Arr(<<Str("a"), Arr(<<Str("b"), Obj(<< <<"toString", Null>> >>)>>)>>)}
CallerIds(m) ==
  IF m \in {"getTopGames", "getStreams"} THEN {Undefined} ELSE Ids \cup OddIds
CallerOptions(m) ==
  OptionsOf(m) \cup (IF m \in VideoMethods THEN VideoListOptions ELSE {})

(* The caller builds the objects it will pass.                              *)
Build(m, id, arg) ==
  /\ mem = NoMem
  /\ mem' = [phase |-> "built", m |-> m, id |-> id, arg |-> arg,
             cells |-> CallerCells(id, arg), threw |-> FALSE, url |-> "",
             error |-> ""]
  /\ UNCHANGED <<jobs, client, given, call, wire, pin, outs>>

(* The caller invokes the method on them; the method runs up to its call of *)
(* _fetch, which writes to no object.                                       *)
Run ==
  /\ mem.phase = "built"
  /\ LET r == PublicCall_cells(mem.m, mem.cells, Passed(mem.id, "id"),
                               IF mem.arg = Undefined THEN Undefined
                               ELSE ObjAt("options"))
     IN mem' = [mem EXCEPT !.phase = "called", !.cells = r.cells,
                           !.threw = r.threw, !.url = r.url, !.error = r.error]
  /\ UNCHANGED <<jobs, client, given, call, wire, pin, outs>>

(* The caller lets go of its objects.                                       *)
Forget ==
  /\ mem.phase = "called"
  /\ mem' = NoMem
  /\ UNCHANGED <<jobs, client, given, call, wire, pin, outs>>

BuildAny ==
  \E m \in Methods : \E id \in CallerIds(m), arg \in CallerOptions(m) : Build(m, id, arg)

CallerNext == BuildAny \/ Run \/ Forget

CallerSpec == Init /\ [][CallerNext]_vars

-----------------------------------------------------------------------------
(* _parseOptions invoked directly, again and again, with one path and one   *)
(* options object the caller holds on to, and calls of the other methods of *)
(* the class in between that are handed the same objects: the public        *)
(* methods, and the helpers _getClips, _getVideos and _getStreams, which    *)
(* are as callable as _parseOptions is.  The objects an invocation can      *)
(* reach live in cells: the client ("this"), the options object ("options") *)
(* and the arrays it holds ("options.<key>").  An invocation reads the      *)
(* entries the options object has when it runs.                             *)

(* The held objects, this.client_id and this.bearer_token as the            *)
(* constructor set them.                                                    *)
HeldCells(c, o) ==
  New(CallerCells(Undefined, Obj(o)), "this",
      << <<"client_id", Str(c.client_id)>>, <<"bearer_token", Str(c.bearer_token)>> >>)

ReparseInit ==
  /\ given = CHOOSE c \in Credentials : c.client_id = "abc123"
  /\ client = [client_id |-> given.client_id, bearer_token |-> given.bearer_token]
  /\ call = Idle
  /\ wire = <<>>
  /\ \E o \in {o \in OptionMaps : Len(o) <= 1 /\ \A i \in 1..Len(o) : ~IsArray(o[i][2])}
               \cup {<< <<"language", g>> >> : g \in LanguageLists}
               \cup {<< <<"language", g>>, <<"limit", Num(100)>> >> :
                       g \in LanguageLists} :
       /\ pin = [path |-> "clips", options |-> o, set |-> TRUE]
       /\ mem = [phase |-> "held", cells |-> HeldCells(given, o),
                 last |-> "none", between |-> "none", helped |-> FALSE,
                 seen |-> <<>>]
  /\ outs = <<>>
  /\ jobs = NoJobs

(* this._parseOptions(path, options) on the held objects: what it returns   *)
(* or throws, and the cells as it leaves them.  `seen` keeps the entries    *)
(* the options object had when the invocation began, `between` the kind of  *)
(* call made since the invocation before.                                   *)
ParseHeld ==
  /\ mem.phase = "held"
  /\ Len(outs) < MaxRepeat
  /\ LET r == Parsed(mem.cells, pin.path, ObjAt("options"))
     IN /\ outs' = Append(outs, IF r.threw THEN Thrown(r.error) ELSE Returned(r.url))
        /\ mem' = [mem EXCEPT !.cells = r.cells, !.between = mem.last,
                              !.last = "none",
                              !.seen = Append(@, EntriesAt(mem.cells, ObjAt("options")))]
  /\ UNCHANGED <<jobs, client, given, call, wire, pin>>

(* A public method called between two invocations; it runs up to its call   *)
(* of _fetch, which writes to no object, and the objects it created are     *)
(* dropped.                                                                 *)
CallBetween(m, id, arg) ==
  /\ mem.phase = "held"
  /\ mem.last = "none"
  /\ Len(outs) < MaxRepeat
  /\ LET r == PublicCall_cells(m, mem.cells, id, arg)
     IN mem' = [mem EXCEPT !.cells = [a \in DOMAIN mem.cells |-> r.cells[a]],
                           !.last = IF Named(id) \/ Named(arg) THEN "held"
                                    ELSE "plain"]
  /\ UNCHANGED <<jobs, client, given, call, wire, pin, outs>>

(* What a public call in between is handed: a string or one of the held    *)
(* arrays as its first argument, nothing or the held options object as its  *)
(* options.                                                                 *)
CallBetweenAny ==
  \E m \in Methods :
    \E id \in IF m \in {"getTopGames", "getStreams"} THEN {Undefined}
              ELSE {Str("44322889")}
                     \cup {ArrAt(a) : a \in DOMAIN mem.cells \ {"this", "options"}},
       arg \in IF OptionsOf(m) = {Undefined} THEN {Undefined}
               ELSE {Undefined, ObjAt("options")} :
      CallBetween(m, id, arg)

(* A helper called between two invocations with the held options object as *)
(* its options: _getClips and _getVideos assign options[method] = query on  *)
(* the object they are given, _getStreams reads options.language into opts  *)
(* and appends that array to itself.                                        *)
HelperBetween(f, method, query) ==
  /\ mem.phase = "held"
  /\ mem.last = "none"
  /\ Len(outs) < MaxRepeat
  /\ LET r == CASE f = "_getClips" ->
                   _getClips_cells(mem.cells, method.s, query, ObjAt("options"))
               [] f = "_getVideos" ->
                   _getVideos_cells(mem.cells, method.s, query, ObjAt("options"))
               [] f = "_getStreams" ->
                   _getStreams_cells(mem.cells, method, query, ObjAt("options"))
     IN mem' = [mem EXCEPT !.cells = [a \in DOMAIN mem.cells |-> r.cells[a]],
                           !.last = "helper", !.helped = TRUE]
  /\ UNCHANGED <<jobs, client, given, call, wire, pin, outs>>

HelperBetweenAny ==
  \/ \E query \in {Str("44322889")}
                     \cup {ArrAt(a) : a \in DOMAIN mem.cells \ {"this", "options"}} :
       \/ HelperBetween("_getClips", Str("id"), query)
       \/ HelperBetween("_getVideos", Str("user_id"), query)
  \/ HelperBetween("_getStreams", Null, Null)
  \/ HelperBetween("_getStreams", Str("user_id"), Str("44322889"))

ReparseNext == ParseHeld \/ CallBetweenAny \/ HelperBetweenAny

ReparseSpec == ReparseInit /\ [][ReparseNext]_vars

-----------------------------------------------------------------------------
(* Reading a URL back: the text after the first '?', cut at each '&', each  *)
(* piece cut at its first '='.                                              *)

RECURSIVE Find(_, _, _)
Find(s, c, i) ==
  IF i > Len(s) THEN 0
  ELSE IF SubSeq(s, i, i) = c THEN i ELSE Find(s, c, i + 1)

RECURSIVE Split(_, _)
Split(s, c) ==
  LET i == Find(s, c, 1)
  IN IF i = 0 THEN <<s>>
     ELSE <<SubSeq(s, 1, i - 1)>> \o Split(SubSeq(s, i + 1, Len(s)), c)

HasQuery(url) == Find(url, "?", 1) /= 0
Query(url) == SubSeq(url, Find(url, "?", 1) + 1, Len(url))
PairTexts(url) == IF HasQuery(url) THEN Split(Query(url), "&") ELSE <<>>
PairKey(p) == IF Find(p, "=", 1) = 0 THEN p ELSE SubSeq(p, 1, Find(p, "=", 1) - 1)
PairValue(p) == IF Find(p, "=", 1) = 0 THEN "" ELSE SubSeq(p, Find(p, "=", 1) + 1, Len(p))
ValuesIn(pairs, k) ==
  LET ps == SelectSeq(pairs, LAMBDA p : PairKey(p) = k)
  IN [i \in 1..Len(ps) |-> PairValue(ps[i])]
ValuesOf(url, k) == ValuesIn(PairTexts(url), k)

(* The pairs the contract asks of one entry, and a list joined by '&'.      *)
WantedPairs(param) ==
  LET v == param[2]
  IN IF IsArray(v) THEN [i \in 1..Len(v.a) |-> param[1] \o "=" \o ScalarText(v.a[i]).text]
     ELSE IF Truthy(v) THEN <<param[1] \o "=" \o ScalarText(v).text>>
     ELSE <<>>

RECURSIVE Flatten(_)
Flatten(ss) == IF ss = <<>> THEN <<>> ELSE Head(ss) \o Flatten(Tail(ss))

RECURSIVE JoinAmp(_)
JoinAmp(ps) ==
  IF ps = <<>> THEN ""
  ELSE IF Len(ps) = 1 THEN Head(ps)
  ELSE Head(ps) \o "&" \o JoinAmp(Tail(ps))

WantedOf(options) == Flatten([i \in 1..Len(options) |-> WantedPairs(options[i])])

Orders(n) == {f \in [1..n -> 1..n] : \A i, j \in 1..n : f[i] = f[j] => i = j}
Permuted(options, f) == [i \in 1..Len(options) |-> options[f[i]]]

(* The maps claim C1 speaks of: each value absent, a truthy scalar or a     *)
(* sequence of scalars.                                                     *)
PlainMap(options) ==
  \A i \in 1..Len(options) :
    LET v == options[i][2] IN v = Undefined \/ IsArray(v) \/ Truthy(v)

(* The maps claim C2 speaks of: each value falsy or an empty sequence.      *)
BlankMap(options) ==
  \A i \in 1..Len(options) :
    LET v == options[i][2] IN v = Arr(<<>>) \/ (~IsArray(v) /\ ~Truthy(v))

FalsyTexts == {"", "0", "null", "undefined"}

(* C1 as stated: for every map of absent values, truthy scalars and         *)
(* sequences, the URL is base + path + '?' + the pairs joined by '&',       *)
(* always with the '?'.                                                     *)
C1_AlwaysQuestionMark ==
  \A n \in 1..Len(outs) :
    PlainMap(pin.options) =>
      outs[n].text = API \o pin.path \o "?" \o JoinAmp(WantedOf(pin.options))

(* C1, amended: for every such map the URL is base + path + '?' + the pairs *)
(* joined by single '&' with no trailing separator, in insertion order, one *)
(* pair per scalar and one per element of a sequence, when at least one     *)
(* pair is emitted, and base + path alone when none is; a permutation of    *)
(* the keys' insertion order permutes the pairs identically.                *)
C1_UrlOfPairs ==
  \A n \in 1..Len(outs) :
    PlainMap(pin.options) =>
      /\ ~outs[n].threw
      /\ outs[n].text = IF WantedOf(pin.options) = <<>> THEN API \o pin.path
                   ELSE API \o pin.path \o "?" \o JoinAmp(WantedOf(pin.options))
      /\ \A f \in Orders(Len(pin.options)) :
           PairTexts(_parseOptions(pin.path, Permuted(pin.options, f)).text)
             = Flatten([i \in 1..Len(pin.options) |-> WantedPairs(pin.options[f[i]])])

C1_Witness ==
  /\ outs /= <<>>
  /\ PlainMap(pin.options)
  /\ Len(pin.options) = 2
  /\ IsArray(pin.options[1][2]) /\ Len(pin.options[1][2].a) = 2
  /\ pin.options[1][2].a[1] /= pin.options[1][2].a[2]
  /\ ~IsArray(pin.options[2][2]) /\ Truthy(pin.options[2][2])
  /\ Len(PairTexts(outs[1].text)) = 3

(* C2: when every value of the map is falsy, absent or an empty sequence    *)
(* (the empty map included), the URL is the base followed by the path and   *)
(* nothing else: no '?', no pair.                                           *)
C2_NoParameters ==
  \A n \in 1..Len(outs) :
    BlankMap(pin.options) =>
      /\ outs[n].text = API \o pin.path
      /\ PairTexts(outs[n].text) = <<>>

C2_Witness ==
  /\ outs /= <<>>
  /\ BlankMap(pin.options)
  /\ Len(pin.options) = 2
  /\ pin.options[1][2] = Arr(<<>>)
  /\ pin.options[2][2] = Num(0)

(* C10 as stated: every pair of the URL has a truthy value, the pairs of a  *)
(* sequence value's elements included.                                      *)
C10_AllPairsTruthy ==
  \A n \in 1..Len(outs) :
    LET ps == PairTexts(outs[n].text)
    IN \A i \in 1..Len(ps) : PairValue(ps[i]) \notin FalsyTexts

(* C10, amended: only truthy scalar values are emitted: a key whose value   *)
(* is a falsy scalar ('', 0, null, undefined) has no pair and a key whose   *)
(* value is a truthy scalar has exactly one, with that value; the elements  *)
(* of a sequence value are not filtered: each one, truthy or not, has its   *)
(* pair, in element order.                                                  *)
C10_ScalarPairsTruthy ==
  \A n \in 1..Len(outs) :
    LET ps == PairTexts(outs[n].text)
    IN /\ \A i \in 1..Len(ps) : HasKey(pin.options, PairKey(ps[i]))
       /\ \A i \in 1..Len(pin.options) :
            LET k == pin.options[i][1]
                v == pin.options[i][2]
            IN IF IsArray(v)
               THEN ValuesIn(ps, k) = [j \in 1..Len(v.a) |-> ScalarText(v.a[j]).text]
               ELSE IF Truthy(v)
               THEN /\ ValuesIn(ps, k) = <<ScalarText(v).text>>
                    /\ ScalarText(v).text \notin FalsyTexts
               ELSE ValuesIn(ps, k) = <<>>

C10_Witness ==
  /\ outs /= <<>>
  /\ Len(pin.options) = 2
  /\ pin.options[1] = <<"first", Num(0)>>
  /\ pin.options[2] = <<"language", Arr(<<Str("en"), Num(0)>>)>>
  /\ outs[1].text = API \o pin.path \o "?language=en&language=0"

-----------------------------------------------------------------------------
(* The requests of the public methods                                       *)

Url == wire[1].url
Sent == call /= Idle /\ wire /= <<>>
Field(arg, k) == Get(OptsOf(arg), k)

IdKey(m) ==
  CASE m = "getClipsByBroadcaster" -> "broadcaster_id"
    [] m = "getClipsByGameId" -> "game_id"
    [] m = "getClipsByClipId" -> "id"
    [] m = "getVideosByBroadcasterId" -> "user_id"

(* The texts of the pairs an id argument stands for.                        *)
IdTexts(id) ==
  IF IsArray(id) THEN [i \in 1..Len(id.a) |-> ScalarText(id.a[i]).text]
  ELSE IF Truthy(id) THEN <<ScalarText(id).text>>
  ELSE <<>>

LimitMethods ==
  ClipMethods \cup StreamMethods \cup FollowMethods \cup VideoMethods \cup {"getTopGames"}

(* C3: every request carries exactly the headers client-id, with the        *)
(* client_id given at construction, and Authorization, with 'Bearer ' and   *)
(* the bearer_token given at construction; no method changes either field.  *)
C3_Headers ==
  /\ client = [client_id |-> given.client_id, bearer_token |-> given.bearer_token]
  /\ \A i \in 1..Len(wire) :
       wire[i].headers = << <<"client-id", given.client_id>>,
                            <<"Authorization", "Bearer " \o given.bearer_token>> >>

C3_Witness ==
  /\ Sent
  /\ call.m = "getVideosByBroadcasterId"
  /\ call.state = "fulfilled"
  /\ given.bearer_token = "tok2"
  /\ Get(wire[1].headers, "Authorization") = "Bearer tok2"

(* C4: every request of a public method names its verb, GET or POST.        *)
C4_ExplicitVerb ==
  \A i \in 1..Len(wire) : wire[i].method \in {Str("GET"), Str("POST")}

(* C5: a call issues exactly one request; a failed request or an           *)
(* unreadable body ends the call in an error and nothing else, a read body  *)
(* ends it in that body; a call has one outcome; and once the transport has *)
(* given its last answer, the next step of the call ends it, and it is      *)
(* taken.                                                                   *)
Answered == call /= Idle /\ (call.net = "failed" \/ call.read \in {"parsed", "failed"})
Ended == call /= Idle /\ call.state \in {"fulfilled", "rejected"}
C5_Outcome ==
  call /= Idle =>
    /\ Len(wire) = 1
    /\ wire[1].url = PublicCall(call.m, call.id, call.arg).url
    /\ call.state \in {"pending", "fulfilled", "rejected"}
    /\ call.state = "rejected" =>
         /\ call.net = "failed" \/ call.read = "failed"
         /\ call.error = "Error: " \o call.cause /\ call.cause /= ""
         /\ call.value = ""
    /\ call.state = "fulfilled" =>
         /\ call.net = "responded" /\ call.read = "parsed"
         /\ call.value = call.body /\ call.error = ""
    /\ call.state = "pending" => call.value = "" /\ call.error = ""
    /\ call.net = "failed" => call.read = "waiting" /\ call.stage = "fetch"
C5_OneRequestOneOutcome ==
  /\ []C5_Outcome
  /\ [][Answered /\ ~Ended => Ended' /\ wire' = wire]_vars
  /\ (Answered ~> Ended)

C5_Witness ==
  /\ Sent
  /\ call.net = "responded"
  /\ call.read = "failed"
  /\ call.state = "rejected"
  /\ Len(wire) = 1

(* A clips call with limit 20 or none and no other option.                  *)
OnlyLimit20(arg) ==
  /\ Field(arg, "limit") \in {Undefined, Num(DefaultLimit)}
  /\ \A k \in {"forwardPagination", "backwardPagination", "startedAt", "endedAt"} :
       Field(arg, k) = Undefined

(* C6 as stated: the clips request for broadcaster 44322889 with limit 20   *)
(* goes to clips?broadcaster_id=44322889&first=20, and for the clips and    *)
(* videos methods the identifying key is the first pair of the query.       *)
C6_IdentifierFirst ==
  (Sent /\ call.m \in ClipMethods \cup VideoMethods) =>
    /\ (call.m = "getClipsByBroadcaster" /\ call.id = Str("44322889") /\ OnlyLimit20(call.arg))
         => Url = "https://api.twitch.tv/helix/clips?broadcaster_id=44322889&first=20"
    /\ IdTexts(call.id) /= <<>> => PairKey(PairTexts(Url)[1]) = IdKey(call.m)

(* C6, amended: that request goes to clips?first=20&broadcaster_id=44322889 *)
(* and for the clips and videos methods the pairs of the identifying key    *)
(* (one for a non-empty id, one per element of a list of ids) are the last  *)
(* pairs of the query, after 'first' and every other option.                *)
C6_IdentifierLast ==
  (Sent /\ call.m \in ClipMethods \cup VideoMethods) =>
    /\ (call.m = "getClipsByBroadcaster" /\ call.id = Str("44322889") /\ OnlyLimit20(call.arg))
         => Url = "https://api.twitch.tv/helix/clips?first=20&broadcaster_id=44322889"
    /\ LET ps == PairTexts(Url)
           ids == IdTexts(call.id)
           n == Len(ps) - Len(ids)
       IN /\ n >= 0
          /\ \A i \in 1..Len(ids) : ps[n + i] = IdKey(call.m) \o "=" \o ids[i]
          /\ \A i \in 1..n : PairKey(ps[i]) /= IdKey(call.m)

C6_Witness ==
  /\ Sent
  /\ call.m = "getClipsByClipId"
  /\ IsArray(call.id) /\ Len(call.id.a) = 2
  /\ Field(call.arg, "limit") = Num(100)
  /\ Url = "https://api.twitch.tv/helix/clips?first=100&id=141981765&id=141981766"

(* C7: a streams call with a list of languages sends one language pair per  *)
(* element, each once and in the order given.                               *)
C7_LanguagePairs ==
  (Sent /\ call.m \in StreamMethods /\ IsArray(Field(call.arg, "language"))) =>
    ValuesOf(Url, "language") = IdTexts(Field(call.arg, "language"))

(* C8: a method with a limit option sends first=20 once when the limit is   *)
(* left out and first=n once for a positive limit n, and sends a given      *)
(* forward cursor as after=<cursor> and a given backward cursor (where the  *)
(* method has one) as before=<cursor>.                                      *)
C8_LimitAndCursors ==
  (Sent /\ call.m \in LimitMethods) =>
    LET ps == PairTexts(Url)
        limit == Field(call.arg, "limit")
        fwd == Field(call.arg, "forwardPagination")
        bwd == Field(call.arg, "backwardPagination")
    IN /\ limit = Undefined => ValuesIn(ps, "first") = <<ToString(DefaultLimit)>>
       /\ (limit.t = "number" /\ limit.n > 0) => ValuesIn(ps, "first") = <<ToString(limit.n)>>
       /\ fwd /= Undefined => ValuesIn(ps, "after") = <<ScalarText(fwd).text>>
       /\ (bwd /= Undefined /\ call.m \notin FollowMethods) =>
            ValuesIn(ps, "before") = <<ScalarText(bwd).text>>

C9_InvocationWritesNothing ==
  (Len(outs') > Len(outs) \/ mem'.last \in {"plain", "held"}) =>
    /\ mem'.cells = mem.cells
    /\ client' = client

OwnRequest(c) ==
  LET f == PublicCall(c.m, c.id, c.arg)
  IN FetchRequest([client_id |-> given.client_id,
                   bearer_token |-> given.bearer_token], f.url, f.method)
OwnOutcome(c) ==
  LET n == Len(c.served)
  IN /\ c.state = "fulfilled" =>
          /\ n = 2 /\ c.served[1].ok /\ c.served[2].ok
          /\ c.value = c.served[2].body
     /\ c.state = "rejected" =>
          /\ n >= 1 /\ ~c.served[n].ok
          /\ \A i \in 1..(n - 1) : c.served[i].ok
          /\ c.error = "Error: " \o c.served[n].err
     /\ c.state = "pending" =>
          \A i \in 1..n : c.served[i].ok \/ (i = n /\ c.mail.full)
OwnException(c) ==
  LET f == PublicCall(c.m, c.id, c.arg)
  IN /\ (c.state = "threw") = f.threw
     /\ c.state = "threw" => c.error = f.error /\ c.served = <<>>
C11_EachCallItsOwn ==
  \A j \in DOMAIN jobs :
    jobs[j] /= Free =>
      /\ OwnException(jobs[j])
      /\ jobs[j].req = IF jobs[j].state = "threw" THEN NoRequest
                       ELSE OwnRequest(jobs[j])
      /\ OwnOutcome(jobs[j])

(* Two calls in flight with different requests: one already has its body    *)
(* while the other, answered with a different body, has yet to resume.      *)
C11_Witness ==
  \E j, k \in DOMAIN jobs :
    /\ j /= k /\ jobs[j] /= Free /\ jobs[k] /= Free
    /\ jobs[j].req.url /= jobs[k].req.url
    /\ jobs[j].state = "pending" /\ jobs[j].stage = "json"
    /\ jobs[j].mail.full /\ jobs[j].mail.ok
    /\ jobs[k].state = "fulfilled"
    /\ jobs[k].value /= jobs[j].mail.body
    /\ jobs[k].req = OwnRequest(jobs[k])

(* C12: after a call of any public method, every object of the caller, the  *)
(* options object and each sequence passed as id, name, query or language,  *)
(* has the keys, the elements and the length it had before the call,        *)
(* whether the call returned or threw; the URL built through the objects is *)
(* the one the method hands to _fetch.                                      *)
C12_CallerObjectsUntouched ==
  mem.phase = "called" =>
    /\ \A a \in OwnAddrs(mem.id, mem.arg) :
         a \in DOMAIN mem.cells /\ mem.cells[a] = CallerCells(mem.id, mem.arg)[a]
    /\ LET f == PublicCall(mem.m, mem.id, mem.arg)
       IN mem.threw = f.threw /\ mem.url = f.url /\ mem.error = f.error

(* A streams call given a sequence of ids and a sequence of languages: the  *)
(* ids were copied into a new array and the languages replaced by one.      *)
C12_Witness ==
  /\ mem.phase = "called"
  /\ mem.m \in StreamIdMethods
  /\ IsArray(mem.id) /\ Len(mem.id.a) = MaxSeqLen
  /\ mem.arg /= Undefined
  /\ IsArray(Get(mem.arg.e, "language")) /\ Len(Get(mem.arg.e, "language").a) = MaxSeqLen
  /\ mem.cells["opts.query"] = mem.cells["id"]
  /\ mem.cells["literal.language"] = <<>>
  /\ mem.cells["options.language"] = Get(mem.arg.e, "language").a
=========================================================================
